---------------------------- MODULE Spec2Model ----------------------------
(***************************************************************************)
(* Barycentric point-to-mesh mapping (barycentric_mapping.py).             *)
(*                                                                         *)
(* Arithmetic.  The program computes in floating point; the model computes *)
(* the same formulas exactly.  Coordinates of vertices and query points    *)
(* are integer multiples of a quarter: the stored integer x stands for the *)
(* coordinate x/4.  Quantities derived from them are rationals [n, d]      *)
(* (lowest terms, d > 0; d = 0 is +infinity).  A Euclidean norm is kept as *)
(* its square (sqrt is strictly increasing, so every comparison of         *)
(* distances is the comparison of their squares), a signed value of the    *)
(* form a/sqrt(b) as [sgn, sq] standing for sgn * sqrt(sq).                *)
(* On this grid a non-zero determinant, norm or barycentric sum is far     *)
(* above the 1e-10 floors of the code, so "|x| < 1e-10" is "x = 0".        *)
(***************************************************************************)
EXTENDS Integers, Sequences, FiniteSets, TLC

\* ------------------------------------------------------------------ bounds
MaxN == 2          \* longest PointSet
MaxF == 5          \* most faces of a mesh
MaxBatch == 2      \* largest point batch size tried
MaxChunk == 3      \* largest face-chunk size tried
MaxK == 5          \* largest k_nearest tried
MaxDegenerate == 2  \* most faces of a mesh without area

\* ------------------------------------------------------- exact arithmetic
Abs(x) == IF x < 0 THEN -x ELSE x

Sign(x) == IF x < 0 THEN -1 ELSE IF x > 0 THEN 1 ELSE 0

RECURSIVE GCD(_, _)
GCD(a, b) == IF b = 0 THEN a ELSE GCD(b, a % b)

\* the rational n/d in lowest terms
Reduce(n, d, g) == [n |-> n \div g, d |-> d \div g]

R(n, d) == IF d < 0 THEN Reduce(-n, -d, GCD(Abs(n), Abs(d))) ELSE Reduce(n, d, GCD(Abs(n), Abs(d)))

RZero == [n |-> 0, d |-> 1]
ROne == [n |-> 1, d |-> 1]
RInf == [n |-> 1, d |-> 0]
RAdd(a, b) == R(a.n * b.d + b.n * a.d, a.d * b.d)
RSub(a, b) == R(a.n * b.d - b.n * a.d, a.d * b.d)
RMul(a, b) == R(a.n * b.n, a.d * b.d)
RDiv(a, b) == R(a.n * b.d, a.d * b.n)
RLt(a, b) == a.n * b.d < b.n * a.d
RInt(i) == [n |-> i, d |-> 1]

RECURSIVE SqrtFrom(_, _)
SqrtFrom(r, n) == IF r * r >= n THEN r ELSE SqrtFrom(r + 1, n)

\* least r with r*r >= n
SqrtCeil(n) == SqrtFrom(0, n)
IsSquare(n) == SqrtCeil(n) * SqrtCeil(n) = n
RIsSquare(q) == IsSquare(q.n) /\ IsSquare(q.d)
RSqrt(q) == R(SqrtCeil(q.n), SqrtCeil(q.d))

\* integer 3-vectors
VSub(a, b) == <<a[1] - b[1], a[2] - b[2], a[3] - b[3]>>
VAdd(a, b) == <<a[1] + b[1], a[2] + b[2], a[3] + b[3]>>
VDot(a, b) == a[1] * b[1] + a[2] * b[2] + a[3] * b[3]
VCross(a, b) == <<a[2] * b[3] - a[3] * b[2],
                  a[3] * b[1] - a[1] * b[3],
                  a[1] * b[2] - a[2] * b[1]>>

\* sgn * sqrt(sq), the value num / sqrt(den2) for integers num, den2 > 0
Surd(num, den2) == [sgn |-> Sign(num), sq |-> R(num * num, den2)]
SurdZero == [sgn |-> 0, sq |-> RZero]

\* ------------------------------------------------------------------ inputs
\* the stored integer x stands for the coordinate x/4
VertexPool == << <<0, 0, 0>>, <<4, 0, 0>>, <<4, 4, 0>>, <<0, 4, 0>>, <<0, 0, 4>> >>

\* triangles as triples of 0-based vertex indices; the last is degenerate
BaseFaces == << <<0, 1, 2>>, <<0, 2, 3>>, <<0, 4, 3>>, <<0, 1, 4>>, <<1, 2, 4>>, <<0, 1, 1>> >>

BasePoints == << <<1, 1, 2>>, <<3, 1, 0>>, <<0, 1, 0>>, <<1, -1, 1>>, <<1, 0, 1>> >>

\* the contiguous pieces of s that have at most m elements
Windows(s, m) ==
  {w \in {SubSeq(s, i, j) : i \in 1..Len(s), j \in 0..Len(s)} : Len(w) <= m}

UsesOnly(fs, nv) == \A i \in 1..Len(fs) : \A c \in 1..3 : fs[i][c] < nv

Meshes ==
  {[v |-> VertexPool, f |-> w] : w \in Windows(BaseFaces, MaxF)}
  \cup {[v |-> SubSeq(VertexPool, 1, 4), f |-> w] :
          w \in {x \in Windows(BaseFaces, MaxF) : UsesOnly(x, 4)}}

PointSets == Windows(BasePoints, MaxN)

\* faces without area: two or three coincident vertices, or three distinct
\* vertices on one line (with v0 at an end, and with v0 in the middle)
DegeneratePool == <<<<0, 0, 0>>, <<4, 0, 0>>, <<8, 0, 0>>, <<2, 2, 2>>>>

DegenerateFaces == <<<<0, 1, 1>>, <<0, 0, 1>>, <<1, 0, 1>>, <<3, 3, 3>>, <<0, 1, 2>>, <<1, 0, 2>>>>

DegenerateMeshes == {[v |-> DegeneratePool, f |-> w] : w \in Windows(DegenerateFaces, MaxDegenerate)}

\* ------------------------------------------------------ Face Attribute Cache
\* vertices[faces[:, c]] for one face (indices are 0-based in the program)
FaceVerts(vs, face) == <<vs[face[1] + 1], vs[face[2] + 1], vs[face[3] + 1]>>

\* (v0 + v1 + v2) / 3.0
Third(s) == <<R(s[1], 3), R(s[2], 3), R(s[3], 3)>>

Centroid(fv) == Third(VAdd(VAdd(fv[1], fv[2]), fv[3]))

\* cross(edge1, edge2) / maximum(norm, 1e-10): the unit vector dir/sqrt(len2);
\* when the norm is floored the cross product is the zero vector and so is the
\* quotient
NormalOf(n) == [dir |-> n, len2 |-> VDot(n, n), floored |-> VDot(n, n) = 0]

UnitNormal(fv) == NormalOf(VCross(VSub(fv[2], fv[1]), VSub(fv[3], fv[1])))

compute_face_data(vs, fs) ==
  [centroids |-> [f \in 1..Len(fs) |-> Centroid(FaceVerts(vs, fs[f]))],
   normals |-> [f \in 1..Len(fs) |-> UnitNormal(FaceVerts(vs, fs[f]))],
   face_vertices |-> [f \in 1..Len(fs) |-> FaceVerts(vs, fs[f])]]

\* --------------------------------------------------- Narrow-Phase Projector
\* denom = where(abs(denom) < 1e-10, 1e-10, denom)
DenomFloored(denom) == denom = 0

\* a variant of FlooredQuot without the floor: a zero determinant gives a
\* quotient that is not finite
FlooredQuot_Unfloored(num, denom) ==
  IF denom = 0 THEN RInf ELSE R(num, denom)

\* num / denom after the floor: num / 1e-10 is 0 or lies beyond every bound
\* np.clip compares it with, and is kept as a signed infinity
FlooredQuot(num, denom) ==
  IF DenomFloored(denom)
    THEN (IF num = 0 THEN RZero ELSE [n |-> Sign(num), d |-> 0])
    ELSE R(num, denom)

\* np.clip(x, 0, 1)
Clip01(x) == IF RLt(x, RZero) THEN RZero ELSE IF RLt(ROne, x) THEN ROne ELSE x

\* total = where(total < 1e-10, 1.0, total)
FlooredTotal(total) == IF total.n <= 0 THEN ROne ELSE total

\* sum of squares of p - c, for an integer vector p and a rational vector c
RSquare(x) == RMul(x, x)

RDist2(p, c) ==
  RAdd(RAdd(RSquare(RSub(RInt(p[1]), c[1])), RSquare(RSub(RInt(p[2]), c[2]))),
       RSquare(RSub(RInt(p[3]), c[3])))

\* u*v0 + v*v1 + w*v2
CombineAt(b, x0, x1, x2) ==
  RAdd(RAdd(RMul(b[1], RInt(x0)), RMul(b[2], RInt(x1))), RMul(b[3], RInt(x2)))

Combine(b, v0, v1, v2) ==
  <<CombineAt(b, v0[1], v1[1], v2[1]), CombineAt(b, v0[2], v1[2], v2[2]),
    CombineAt(b, v0[3], v1[3], v2[3])>>

\* d00, d01, d11, d20, d21: the dot products of edge0 = v1 - v0,
\* edge1 = v2 - v0 and v0_to_p = point - v0
Dots(point, v0, v1, v2) ==
  LET edge0 == VSub(v1, v0)
      edge1 == VSub(v2, v0)
      v0_to_p == VSub(point, v0)
  IN  [d00 |-> VDot(edge0, edge0), d01 |-> VDot(edge0, edge1), d11 |-> VDot(edge1, edge1),
       d20 |-> VDot(v0_to_p, edge0), d21 |-> VDot(v0_to_p, edge1)]

\* a variant of UnclampedBary with the numerators of v and w exchanged
UnclampedBary_Swapped(d) ==
  <<RSub(ROne, FlooredQuot((d.d11 * d.d20 - d.d01 * d.d21) + (d.d00 * d.d21 - d.d01 * d.d20),
                           d.d00 * d.d11 - d.d01 * d.d01)),
    FlooredQuot(d.d00 * d.d21 - d.d01 * d.d20, d.d00 * d.d11 - d.d01 * d.d01),
    FlooredQuot(d.d11 * d.d20 - d.d01 * d.d21, d.d00 * d.d11 - d.d01 * d.d01)>>

\* <<u, v, w>> before clamping: Cramer's rule over the floored determinant,
\* u = 1.0 - v - w with v + w taken over their common denominator
UnclampedBary(d) ==
  LET denom == d.d00 * d.d11 - d.d01 * d.d01
      vnum == d.d11 * d.d20 - d.d01 * d.d21
      wnum == d.d00 * d.d21 - d.d01 * d.d20
  IN  <<RSub(ROne, FlooredQuot(vnum + wnum, denom)), FlooredQuot(vnum, denom),
        FlooredQuot(wnum, denom)>>

\* u_clamped + v_clamped + w_clamped
Total(c) == RAdd(RAdd(c[1], c[2]), c[3])

\* the division of the clamped coordinates by the floored total
DivideBy(c, total) == <<RDiv(c[1], total), RDiv(c[2], total), RDiv(c[3], total)>>

Renormalize(c) == DivideBy(c, FlooredTotal(Total(c)))

\* clip to [0, 1], then renormalize
ClampRenormalize(b) == Renormalize(<<Clip01(b[1]), Clip01(b[2]), Clip01(b[3])>>)

\* the returned tuple for the closest point (closest is u*v0 + v*v1 + w*v2 in
\* quarter steps); dist is the square of the returned distance
Projected(point, unclamped, bary, closest) ==
  [closest |-> <<RDiv(closest[1], RInt(4)), RDiv(closest[2], RInt(4)), RDiv(closest[3], RInt(4))>>,
   bary |-> bary,
   unclamped |-> unclamped,
   dist |-> RDiv(RDist2(point, closest), RInt(16))]

ProjectClamped(point, v0, v1, v2, unclamped, bary) ==
  Projected(point, unclamped, bary, Combine(bary, v0, v1, v2))

ProjectUnclamped(point, v0, v1, v2, unclamped) ==
  ProjectClamped(point, v0, v1, v2, unclamped, ClampRenormalize(unclamped))

\* one row of point_to_triangle_distance_and_projection (unclamped is the
\* intermediate <<u, v, w>>, kept for the properties)
point_to_triangle_distance_and_projection(point, v0, v1, v2) ==
  ProjectUnclamped(point, v0, v1, v2, UnclampedBary(Dots(point, v0, v1, v2)))

\* dot(point - v0, normal) for the unit normal nrm, in coordinate units
NormalOffset(point, v0, nrm) ==
  IF nrm.floored THEN SurdZero
  ELSE Surd(VDot(VSub(point, v0), nrm.dir), 16 * nrm.len2)

\* ------------------------------------------------------ Broad-Phase Selector
\* squared distance from a query point to a face centroid
CentroidDist2(point, c) == RDist2(point, c)

\* the faces of S whose centroid is nearest to the point
NearestIn(S, point, cents) ==
  {f \in S : \A g \in S : ~RLt(CentroidDist2(point, cents[g + 1]), CentroidDist2(point, cents[f + 1]))}

\* every order of the faces S by increasing centroid distance; the order of
\* equidistant centroids is the library's choice
RECURSIVE Orders(_, _, _)
Orders(S, point, cents) ==
  IF S = {} THEN {<<>>}
  ELSE UNION {{<<f>> \o t : t \in Orders(S \ {f}, point, cents)} : f \in NearestIn(S, point, cents)}

\* tree.query(point, k): the k nearest centroids, nearest first; a missing
\* neighbour is reported as the index n_faces
TreeQuery(point, cents, nf, k) ==
  {[j \in 1..k |-> IF j <= nf THEN o[j] ELSE nf] : o \in Orders(0..(nf - 1), point, cents)}

\* ------------------------------------------------------- compute_mapping_cpu
\* if face_idx >= len(faces): continue
IsSentinel(face_idx, nf) == face_idx >= nf

\* a variant of CpuImproves that lets every examined candidate replace the best
CpuImproves_Always(dist, best_dist) == TRUE

\* if dist[0] < best_dist
CpuImproves(dist, best_dist) == RLt(dist, best_dist)

\* the body of "if dist[0] < best_dist": the running best after candidate face_idx
Improved(r, face_idx, best) ==
  IF CpuImproves(r.dist, best.dist)
    THEN [dist |-> r.dist, face |-> face_idx, bary |-> r.bary]
    ELSE best

\* v0, v1, v2 = face_verts[face_idx]; the narrow phase against them
CandidateProjection(point, fv) ==
  point_to_triangle_distance_and_projection(point, fv[1], fv[2], fv[3])

\* the loop over the candidates of one point, from candidate j on
RECURSIVE BestOver(_, _, _, _, _, _)
BestOver(point, cands, j, best, fverts, nf) ==
  IF j > Len(cands) THEN best
  ELSE IF IsSentinel(cands[j], nf) THEN BestOver(point, cands, j + 1, best, fverts, nf)
  ELSE BestOver(point, cands, j + 1,
                Improved(CandidateProjection(point, fverts[cands[j] + 1]), cands[j], best),
                fverts, nf)

\* best_dist = inf; best_face = 0; best_bary = [1/3, 1/3, 1/3]
CpuBestInit == [dist |-> RInf, face |-> 0, bary |-> <<R(1, 3), R(1, 3), R(1, 3)>>]

CpuBest(point, cands, fverts, nf) == BestOver(point, cands, 1, CpuBestInit, fverts, nf)

\* a variant of NumBatches that rounds down and so drops a last partial batch
NumBatches_Floor(n, bs) == n \div bs

\* n_batches = (n_gaussians + batch_size - 1) // batch_size
NumBatches(n, bs) == (n + bs - 1) \div bs

Min(a, b) == IF a < b THEN a ELSE b

\* start = batch_idx * batch_size, 0-based
BatchStart(bi, bs) == bi * bs

\* end = min(start + batch_size, n_gaussians), exclusive
BatchEnd(bi, bs, n) == Min(BatchStart(bi, bs) + bs, n)

\* ------------------------------------------------------ compute_mapping_cuda
\* d00, d01, d11, d20, d21 of one (point, face) pair
CudaDots(point, v0, v1, v2) ==
  LET edge0 == VSub(v1, v0)
      edge1_bc == VSub(v2, v0)
      v0_to_p == VSub(point, v0)
  IN  [d00 |-> VDot(edge0, edge0), d01 |-> VDot(edge0, edge1_bc),
       d11 |-> VDot(edge1_bc, edge1_bc),
       d20 |-> VDot(v0_to_p, edge0), d21 |-> VDot(v0_to_p, edge1_bc)]

\* <<u_bc, v_bc, w_bc>>
CudaUnclampedBary(d) ==
  LET denom == d.d00 * d.d11 - d.d01 * d.d01
      vnum == d.d11 * d.d20 - d.d01 * d.d21
      wnum == d.d00 * d.d21 - d.d01 * d.d20
  IN  <<RSub(ROne, FlooredQuot(vnum + wnum, denom)), FlooredQuot(vnum, denom),
        FlooredQuot(wnum, denom)>>

CudaRenormalize(c) == DivideBy(c, FlooredTotal(Total(c)))

\* cp.clip to [0, 1], then the division by the floored total
CudaClampRenormalize(b) == CudaRenormalize(<<Clip01(b[1]), Clip01(b[2]), Clip01(b[3])>>)

\* distances = norm(points_exp - closest), kept as its square
CudaDistance(point, bary, v0, v1, v2) ==
  RDiv(RDist2(point, Combine(bary, v0, v1, v2)), RInt(16))

CudaPairOf(point, v0, v1, v2, bary) ==
  [bary |-> bary, dist |-> CudaDistance(point, bary, v0, v1, v2)]

\* one pair of the broadcast narrow phase of the exhaustive strategy
CudaPairProjection(point, v0, v1, v2) ==
  CudaPairOf(point, v0, v1, v2, CudaClampRenormalize(CudaUnclampedBary(CudaDots(point, v0, v1, v2))))

\* cp.argmin over a row of distances: the first index (0-based) of a least one
ArgMin(row) ==
  (CHOOSE j \in 1..Len(row) :
     /\ \A i \in 1..Len(row) : ~RLt(row[i], row[j])
     /\ \A i \in 1..(j - 1) : RLt(row[j], row[i])) - 1

\* a variant of UpdateMask that also lets an equal distance replace the
\* running one
UpdateMask_OrEqual(min_dist, batch_min) == ~RLt(batch_min, min_dist)

\* update_mask = min_dist < batch_min_dist
UpdateMask(min_dist, batch_min_dist) == RLt(min_dist, batch_min_dist)

\* an integer-array index into an array of length len: an index outside
\* 0..len-1 wraps around
TakeIndex(i, len) == i % len

\* normals_batch[min_face_idx - face_start], v0_batch[min_face_idx - face_start]
BestRow(min_face_idx, fstart, len) == TakeIndex(min_face_idx - fstart, len)

\* a variant of GlobalFace that counts faces from 1
GlobalFace_OneBased(min_face_idx, fstart) == min_face_idx + fstart + 1

\* batch_face_indices = where(update_mask, min_face_idx + face_start, ...)
GlobalFace(min_face_idx, fstart) == min_face_idx + fstart

\* new_normal_offset of a point: the offset from row `row` of the chunk
ChunkNormalOffset(point, row, fstart, fverts, nrms) ==
  NormalOffset(point, fverts[fstart + row + 1][1], nrms[fstart + row + 1])

\* a variant of Masked that replaces the distance whatever the mask
Masked_Apart(update_mask, new, run) ==
  IF update_mask THEN new ELSE [run EXCEPT !.dist = new.dist]

\* the four cp.where(update_mask, ...) of a point
Masked(update_mask, new, run) == IF update_mask THEN new ELSE run

\* the running values of a point after the chunk whose pairs are pr and whose
\* nearest face is row min_face_idx of the chunk
ChunkReduce(point, run, pr, min_face_idx, fstart, len, fverts, nrms) ==
  Masked(UpdateMask(pr[min_face_idx + 1].dist, run.dist),
         [face |-> GlobalFace(min_face_idx, fstart),
          bary |-> pr[min_face_idx + 1].bary,
          dist |-> pr[min_face_idx + 1].dist,
          offset |-> ChunkNormalOffset(point, BestRow(min_face_idx, fstart, len), fstart,
                                       fverts, nrms)],
         run)

Distances(pr) == [j \in 1..Len(pr) |-> pr[j].dist]

ChunkOver(point, run, pr, fstart, len, fverts, nrms) ==
  ChunkReduce(point, run, pr, ArgMin(Distances(pr)), fstart, len, fverts, nrms)

\* the pairs of a point with the faces fstart .. fend-1
ChunkPairs(point, fstart, fend, fverts) ==
  [j \in 1..(fend - fstart) |->
     CudaPairProjection(point, fverts[fstart + j][1], fverts[fstart + j][2], fverts[fstart + j][3])]

\* the body of the face-chunk loop for one point of the batch: run is the
\* point's running [face, bary, dist, offset]
CudaChunkPoint(point, run, fstart, fend, fverts, nrms) ==
  ChunkOver(point, run, ChunkPairs(point, fstart, fend, fverts), fstart, fend - fstart,
            fverts, nrms)

\* zeros, zeros, inf, zeros
CudaRunInit == [face |-> 0, bary |-> <<RZero, RZero, RZero>>, dist |-> RInf, offset |-> SurdZero]

\* ------------------------------------------------------ reconstruct_positions
\* a coordinate rat + sgn*sqrt(sq), with a rational square root folded into rat
Coord(rat, sgn, sq) ==
  IF sgn = 0 \/ sq.n = 0 THEN [rat |-> rat, sgn |-> 0, sq |-> RZero]
  ELSE IF RIsSquare(sq) THEN [rat |-> RAdd(rat, RMul(RInt(sgn), RSqrt(sq))), sgn |-> 0, sq |-> RZero]
  ELSE [rat |-> rat, sgn |-> sgn, sq |-> sq]

\* one coordinate of positions + normal_offset * normal
OffsetCoord(position, offset, nrm, i) ==
  IF nrm.floored THEN Coord(RDiv(position, RInt(4)), 0, RZero)
  ELSE Coord(RDiv(position, RInt(4)), offset.sgn * Sign(nrm.dir[i]),
             RMul(offset.sq, R(nrm.dir[i] * nrm.dir[i], nrm.len2)))

\* a variant of AddOffset that leaves the normal offset out
AddOffset_Dropped(positions, offset, nrm) ==
  <<Coord(RDiv(positions[1], RInt(4)), 0, RZero), Coord(RDiv(positions[2], RInt(4)), 0, RZero),
    Coord(RDiv(positions[3], RInt(4)), 0, RZero)>>

AddOffset(positions, offset, nrm) ==
  <<OffsetCoord(positions[1], offset, nrm, 1), OffsetCoord(positions[2], offset, nrm, 2),
    OffsetCoord(positions[3], offset, nrm, 3)>>

ReconstructFace(fv, bary, offset) ==
  AddOffset(Combine(bary, fv[1], fv[2], fv[3]), offset, UnitNormal(fv))

\* one row of reconstruct_positions: the interpolated position plus
\* normal_offset times the unit normal recomputed from the mesh
ReconstructRow(vs, fs, face, bary, offset) ==
  ReconstructFace(FaceVerts(vs, fs[face + 1]), bary, offset)

\* the coordinates of a stored point
PointCoords(point) ==
  <<Coord(R(point[1], 4), 0, RZero), Coord(R(point[2], 4), 0, RZero), Coord(R(point[3], 4), 0, RZero)>>

\* ------------------------------------------------------------ save_mapping
\* struct.pack of one 4-byte field: fmt is "<i" or "<f", of names the array
\* element packed (array, row, column) and value is its value
Word(fmt, of, value) == [fmt |-> fmt, of |-> of, value |-> value]

\* a variant of Pack that writes half-width fields
Pack_Short(word) == <<[word |-> word, byte |-> 0], [word |-> word, byte |-> 1]>>

\* the bytes of a packed field in file order: "<" puts byte 0, the least
\* significant, first
Pack(word) ==
  <<[word |-> word, byte |-> 0], [word |-> word, byte |-> 1], [word |-> word, byte |-> 2],
    [word |-> word, byte |-> 3]>>

\* 256^k
Pow256(k) == IF k = 0 THEN 1 ELSE IF k = 1 THEN 256 ELSE IF k = 2 THEN 65536 ELSE 16777216

\* the value of byte b of a "<i" field: two's complement, 32 bits
ByteValue(b) == (b.word.value \div Pow256(b.byte)) % 256

\* the three f.write calls of one loop iteration, for row i (0-based)
BinRecord(i, face, bary, offset) ==
  Pack(Word("<i", <<"face_indices", i, 0>>, face))
    \o Pack(Word("<f", <<"bary_coords", i, 0>>, bary[1]))
    \o Pack(Word("<f", <<"bary_coords", i, 1>>, bary[2]))
    \o Pack(Word("<f", <<"bary_coords", i, 2>>, bary[3]))
    \o Pack(Word("<f", <<"normal_offsets", i, 0>>, offset))

\* for i in range(n), from row i on
RECURSIVE BinRecords(_, _, _, _, _)
BinRecords(i, n, fi, bc, no) ==
  IF i >= n THEN <<>>
  ELSE BinRecord(i, fi[i + 1], bc[i + 1], no[i + 1]) \o BinRecords(i + 1, n, fi, bc, no)

\* the 'bin' file: the count n = len(result.face_indices), then the records
BinFile(fi, bc, no) ==
  Pack(Word("<i", <<"count", 0, 0>>, Len(fi))) \o BinRecords(0, Len(fi), fi, bc, no)

\* the arrays the 'npz' and 'json' files carry
Arrays(fi, bc, no, md) ==
  [face_indices |-> fi, bary_coords |-> bc, normal_offsets |-> no, distances |-> md]

NoFile == [format |-> "none", bytes |-> <<>>, arrays |-> Arrays(<<>>, <<>>, <<>>, <<>>)]

\* the formats main accepts for --format (argparse choices)
Formats == {"npz", "bin", "json"}

\* ------------------------------------------------------------------- state
VARIABLES
  vertices,             \* mesh vertices, V x 3
  faces,                \* mesh faces, F x 3 vertex indices
  gaussian_positions,   \* the PointSet, N x 3
  backend,              \* "cpu": compute_mapping_cpu, "cuda": compute_mapping_cuda
  k_nearest,            \* candidates per point (index strategy)
  batch_size,           \* points per batch
  face_batch_size,      \* faces per chunk (exhaustive strategy)
  pc,                   \* position in the run
  raised,               \* the exception that ended the run, or "none"
  tree,                 \* "none" or "built": the KDTree over the centroids
  batch_idx,            \* loop variable of the batch loop
  face_start,           \* loop variable of the face-chunk loop
  face_indices, bary_coords, normal_offsets, min_distances,   \* the output arrays
  batch_face_indices, batch_bary, batch_min_dist, batch_normal_offset,
  reconstructed,        \* result of reconstruct_positions
  writes,               \* per output slot: the batches that assigned it, in order
  saved                 \* what save_mapping wrote: its format and content

vars == <<vertices, faces, gaussian_positions, backend, k_nearest, batch_size,
          face_batch_size, pc, raised, tree, batch_idx, face_start, face_indices,
          bary_coords, normal_offsets, min_distances, batch_face_indices, batch_bary,
          batch_min_dist, batch_normal_offset, reconstructed, writes, saved>>

inputs == <<vertices, faces, gaussian_positions, backend, k_nearest, batch_size,
            face_batch_size>>

outputs == <<face_indices, bary_coords, normal_offsets, min_distances>>

running == <<batch_face_indices, batch_bary, batch_min_dist, batch_normal_offset>>

n_gaussians == Len(gaussian_positions)
n_faces == Len(faces)
n_batches == NumBatches(n_gaussians, batch_size)
FaceData == compute_face_data(vertices, faces)

\* the state before compute_mapping_cpu / compute_mapping_cuda is entered, for
\* a mesh drawn from meshes
InitOver(meshes) ==
  /\ \E m \in meshes : vertices = m.v /\ faces = m.f
  /\ gaussian_positions \in PointSets
  /\ backend \in {"cpu", "cuda"}
  /\ batch_size \in 1..MaxBatch
  /\ IF backend = "cpu"
       THEN k_nearest \in 1..MaxK /\ face_batch_size = MaxChunk
       ELSE k_nearest = 1 /\ face_batch_size \in 1..MaxChunk
  /\ pc = "start"
  /\ raised = "none"
  /\ tree = "none"
  /\ batch_idx = 0
  /\ face_start = 0
  /\ face_indices = <<>> /\ bary_coords = <<>> /\ normal_offsets = <<>> /\ min_distances = <<>>
  /\ batch_face_indices = <<>> /\ batch_bary = <<>> /\ batch_min_dist = <<>>
  /\ batch_normal_offset = <<>>
  /\ reconstructed = <<>>
  /\ writes = <<>>
  /\ saved = NoFile

Init == InitOver(Meshes)

\* runs over meshes whose faces all have no area
DegenerateInit == InitOver(DegenerateMeshes)

\* np.zeros / np.full(inf) of the four output arrays
Allocate ==
  /\ face_indices' = [i \in 1..n_gaussians |-> 0]
  /\ bary_coords' = [i \in 1..n_gaussians |-> <<RZero, RZero, RZero>>]
  /\ normal_offsets' = [i \in 1..n_gaussians |-> SurdZero]
  /\ min_distances' = [i \in 1..n_gaussians |-> RInf]
  /\ writes' = [i \in 1..n_gaussians |-> <<>>]

\* compute_mapping_cpu up to the batch loop: face data, KDTree, output arrays.
\* Whether KDTree accepts an empty centroid array is the library's choice.
CpuStart ==
  /\ pc = "start" /\ backend = "cpu"
  /\ \/ /\ tree' = "built"
        /\ Allocate
        /\ pc' = "cpu_loop"
        /\ UNCHANGED raised
     \/ /\ n_faces = 0
        /\ pc' = "raised"
        /\ raised' = "ValueError"
        /\ UNCHANGED <<tree, outputs, writes>>
  /\ UNCHANGED <<inputs, saved, batch_idx, face_start, running, reconstructed>>

\* the record of one point whose best candidate is best: the offset is taken
\* along the normal of best_face, from its vertex 0
CpuRecordOf(point, best, fd) ==
  [face |-> best.face, bary |-> best.bary, dist |-> best.dist,
   offset |-> NormalOffset(point, fd.face_vertices[best.face + 1][1], fd.normals[best.face + 1])]

CpuRecord(point, cands, fd, nf) ==
  CpuRecordOf(point, CpuBest(point, cands, fd.face_vertices, nf), fd)

\* the candidate arrays tree.query can return for the points first .. last of a batch
RECURSIVE BatchQueries(_, _, _, _, _, _)
BatchQueries(first, last, points, fd, nf, k) ==
  IF first > last THEN {<<>>}
  ELSE {[i \in first..last |-> IF i = first THEN c ELSE rest[i]] :
          c \in TreeQuery(points[first], fd.centroids, nf, k),
          rest \in BatchQueries(first + 1, last, points, fd, nf, k)}

\* the assignments to slot global_idx of the four arrays, for the points of a batch
CpuWrite(slots, rec) ==
  /\ face_indices' = [i \in 1..n_gaussians |-> IF i \in slots THEN rec[i].face ELSE face_indices[i]]
  /\ bary_coords' = [i \in 1..n_gaussians |-> IF i \in slots THEN rec[i].bary ELSE bary_coords[i]]
  /\ min_distances' = [i \in 1..n_gaussians |-> IF i \in slots THEN rec[i].dist ELSE min_distances[i]]
  /\ normal_offsets' = [i \in 1..n_gaussians |->
                          IF i \in slots THEN rec[i].offset ELSE normal_offsets[i]]
  /\ writes' = [i \in 1..n_gaussians |->
                  IF i \in slots THEN Append(writes[i], batch_idx) ELSE writes[i]]

\* the points start .. end-1 (0-based) of a batch, as 1-based slots
Slots(bi, bs, n) == (BatchStart(bi, bs) + 1)..BatchEnd(bi, bs, n)

\* one iteration of the batch loop of compute_mapping_cpu
CpuBatch ==
  /\ pc = "cpu_loop" /\ batch_idx < n_batches
  /\ \/ /\ n_faces > 0
        /\ \E candidate_faces \in BatchQueries(BatchStart(batch_idx, batch_size) + 1,
                                               BatchEnd(batch_idx, batch_size, n_gaussians),
                                               gaussian_positions, FaceData, n_faces, k_nearest) :
             CpuWrite(Slots(batch_idx, batch_size, n_gaussians),
                      [i \in Slots(batch_idx, batch_size, n_gaussians) |->
                         CpuRecord(gaussian_positions[i], candidate_faces[i], FaceData, n_faces)])
        /\ batch_idx' = batch_idx + 1
        /\ UNCHANGED <<pc, raised>>
     \/ \* no face: every candidate is skipped, and normals[best_face] with
        \* best_face = 0 is out of range for the first point of the batch
        /\ n_faces = 0
        /\ face_indices' = [face_indices EXCEPT ![BatchStart(batch_idx, batch_size) + 1] = CpuBestInit.face]
        /\ bary_coords' = [bary_coords EXCEPT ![BatchStart(batch_idx, batch_size) + 1] = CpuBestInit.bary]
        /\ min_distances' = [min_distances EXCEPT ![BatchStart(batch_idx, batch_size) + 1] = CpuBestInit.dist]
        /\ writes' = [writes EXCEPT ![BatchStart(batch_idx, batch_size) + 1] = Append(@, batch_idx)]
        /\ pc' = "raised"
        /\ raised' = "IndexError"
        /\ UNCHANGED <<normal_offsets, batch_idx>>
  /\ UNCHANGED <<inputs, saved, tree, face_start, running, reconstructed>>

\* return MappingResult(...)
CpuReturn ==
  /\ pc = "cpu_loop" /\ batch_idx >= n_batches
  /\ pc' = "returned"
  /\ UNCHANGED <<inputs, saved, raised, tree, batch_idx, face_start, outputs, running,
                 reconstructed, writes>>

\* compute_mapping_cuda up to the batch loop
CudaStart ==
  /\ pc = "start" /\ backend = "cuda"
  /\ Allocate
  /\ pc' = "cuda_loop"
  /\ UNCHANGED <<inputs, saved, raised, tree, batch_idx, face_start, running, reconstructed>>

\* batch_size_actual = end - start
BatchSizeActual(bi, bs, n) == BatchEnd(bi, bs, n) - BatchStart(bi, bs)

\* the head of one iteration of the batch loop: the running arrays of the batch
CudaBatchBegin ==
  /\ pc = "cuda_loop" /\ batch_idx < n_batches
  /\ batch_face_indices' = [b \in 1..BatchSizeActual(batch_idx, batch_size, n_gaussians) |-> CudaRunInit.face]
  /\ batch_bary' = [b \in 1..BatchSizeActual(batch_idx, batch_size, n_gaussians) |-> CudaRunInit.bary]
  /\ batch_min_dist' = [b \in 1..BatchSizeActual(batch_idx, batch_size, n_gaussians) |-> CudaRunInit.dist]
  /\ batch_normal_offset' = [b \in 1..BatchSizeActual(batch_idx, batch_size, n_gaussians) |-> CudaRunInit.offset]
  /\ face_start' = 0
  /\ pc' = "cuda_faces"
  /\ UNCHANGED <<inputs, saved, raised, tree, batch_idx, outputs, reconstructed, writes>>

\* the running arrays after a face chunk
SetRunning(upd) ==
  /\ batch_face_indices' = [b \in 1..Len(upd) |-> upd[b].face]
  /\ batch_bary' = [b \in 1..Len(upd) |-> upd[b].bary]
  /\ batch_min_dist' = [b \in 1..Len(upd) |-> upd[b].dist]
  /\ batch_normal_offset' = [b \in 1..Len(upd) |-> upd[b].offset]

\* face_end = min(face_start + face_batch_size, n_faces)
FaceEnd(fstart, fbs, nf) == Min(fstart + fbs, nf)

\* one iteration of the face-chunk loop
CudaFaceChunk ==
  /\ pc = "cuda_faces" /\ face_start < n_faces
  /\ SetRunning([b \in 1..Len(batch_min_dist) |->
                   CudaChunkPoint(gaussian_positions[BatchStart(batch_idx, batch_size) + b],
                                  [face |-> batch_face_indices[b], bary |-> batch_bary[b],
                                   dist |-> batch_min_dist[b], offset |-> batch_normal_offset[b]],
                                  face_start, FaceEnd(face_start, face_batch_size, n_faces),
                                  FaceData.face_vertices, FaceData.normals)])
  /\ face_start' = face_start + face_batch_size
  /\ UNCHANGED <<inputs, saved, pc, raised, tree, batch_idx, outputs, reconstructed, writes>>

\* face_indices[start:end] = batch_face_indices, and the three other slices
StoreSlices(start, slots) ==
  /\ face_indices' = [i \in 1..n_gaussians |->
                        IF i \in slots THEN batch_face_indices[i - start] ELSE face_indices[i]]
  /\ bary_coords' = [i \in 1..n_gaussians |->
                       IF i \in slots THEN batch_bary[i - start] ELSE bary_coords[i]]
  /\ normal_offsets' = [i \in 1..n_gaussians |->
                          IF i \in slots THEN batch_normal_offset[i - start] ELSE normal_offsets[i]]
  /\ min_distances' = [i \in 1..n_gaussians |->
                         IF i \in slots THEN batch_min_dist[i - start] ELSE min_distances[i]]
  /\ writes' = [i \in 1..n_gaussians |->
                  IF i \in slots THEN Append(writes[i], batch_idx) ELSE writes[i]]

CudaBatchStore ==
  /\ pc = "cuda_faces" /\ face_start >= n_faces
  /\ StoreSlices(BatchStart(batch_idx, batch_size), Slots(batch_idx, batch_size, n_gaussians))
  /\ batch_idx' = batch_idx + 1
  /\ pc' = "cuda_loop"
  /\ UNCHANGED <<inputs, saved, raised, tree, face_start, running, reconstructed>>

\* return MappingResult(...)
CudaReturn ==
  /\ pc = "cuda_loop" /\ batch_idx >= n_batches
  /\ pc' = "returned"
  /\ UNCHANGED <<inputs, saved, raised, tree, batch_idx, face_start, outputs, running,
                 reconstructed, writes>>

\* reconstruct_positions on the returned result and the unchanged mesh;
\* faces[result.face_indices, 0] is out of range when a record names no face
Reconstruct ==
  /\ pc = "returned"
  /\ \/ /\ \A i \in 1..n_gaussians : face_indices[i] < n_faces
        /\ reconstructed' = [i \in 1..n_gaussians |->
                               ReconstructRow(vertices, faces, face_indices[i], bary_coords[i],
                                              normal_offsets[i])]
        /\ pc' = "verified"
        /\ UNCHANGED raised
     \/ /\ \E i \in 1..n_gaussians : face_indices[i] >= n_faces
        /\ pc' = "raised"
        /\ raised' = "IndexError"
        /\ UNCHANGED reconstructed
  /\ UNCHANGED <<inputs, saved, tree, batch_idx, face_start, outputs, running, writes>>

\* save_mapping(result, args.output, args.format), after the optional verify;
\* args.format is one of Formats, so the final else (ValueError) is not taken
SaveMapping ==
  /\ pc \in {"returned", "verified"}
  /\ \E format \in Formats :
       \/ /\ format = "bin"
          /\ saved' = [format |-> format,
                        bytes |-> BinFile(face_indices, bary_coords, normal_offsets),
                        arrays |-> NoFile.arrays]
          /\ pc' = "saved"
       \/ /\ format \in {"npz", "json"}
          /\ saved' = [format |-> format, bytes |-> <<>>,
                        arrays |-> Arrays(face_indices, bary_coords, normal_offsets,
                                          min_distances)]
          /\ pc' = "saved"
  /\ UNCHANGED <<inputs, raised, tree, batch_idx, face_start, outputs, running, reconstructed,
                 writes>>

Next ==
  \/ CpuStart \/ CpuBatch \/ CpuReturn
  \/ CudaStart \/ CudaBatchBegin \/ CudaFaceChunk \/ CudaBatchStore \/ CudaReturn
  \/ Reconstruct \/ SaveMapping

Spec == Init /\ [][Next]_vars

DegenerateSpec == DegenerateInit /\ [][Next]_vars

\* ------------------------------------------------------------- properties
\* the face-chunk loop for one point, from chunk start fstart on, as a function
RECURSIVE CudaScan(_, _, _, _, _, _, _)
CudaScan(point, run, fstart, fbs, nf, fverts, nrms) ==
  IF fstart >= nf THEN run
  ELSE CudaScan(point, CudaChunkPoint(point, run, fstart, FaceEnd(fstart, fbs, nf), fverts, nrms),
                fstart + fbs, fbs, nf, fverts, nrms)

\* the record the exhaustive strategy computes for a point with chunk size fbs
ExhaustiveRecord(point, fbs) ==
  CudaScan(point, CudaRunInit, 0, fbs, n_faces, FaceData.face_vertices, FaceData.normals)

\* record i of the output arrays
Rec(i) == [face |-> face_indices[i], bary |-> bary_coords[i], dist |-> min_distances[i],
           offset |-> normal_offsets[i]]

\* record i names the face and the barycentric coordinates of r
SameFace(i, r) == face_indices[i] = r.face /\ bary_coords[i] = r.bary

\* record i holds the distance of r
SameDistance(i, r) == min_distances[i] = r.dist

\* record i holds the face, the barycentric coordinates and the distance of r
SameProjection(i, r) ==
  face_indices[i] = r.face /\ bary_coords[i] = r.bary /\ min_distances[i] = r.dist

\* dot(point - vertex 0 of face f, unit normal of face f)
OffsetOnFace(point, f) ==
  NormalOffset(point, FaceData.face_vertices[f + 1][1], FaceData.normals[f + 1])

\* C1 (as claimed): every record of a returned result over a mesh with faces
\* carries the normal offset of the face its faceIndex names, whatever the
\* face-chunk size.
C1_OffsetOfSelectedFace ==
  (pc = "returned" /\ n_faces >= 1) =>
    \A i \in 1..n_gaussians :
      /\ face_indices[i] < n_faces
      /\ normal_offsets[i] = OffsetOnFace(gaussian_positions[i], face_indices[i])

\* the records the index strategy can compute for a point
IndexRecords(point) ==
  {CpuRecord(point, c, FaceData, n_faces) :
     c \in TreeQuery(point, FaceData.centroids, n_faces, k_nearest)}

\* C2 (as claimed): the returned arrays do not depend on the batch size nor on
\* the face-chunk size: each record of an exhaustive run is the record every
\* chunk size computes for its point, each record of an index run is a record
\* of its point alone.
C2_TuningKeepsOutput ==
  pc = "returned" =>
    \A i \in 1..n_gaussians :
      IF backend = "cuda"
        THEN \A fbs \in 1..(MaxChunk + MaxF) : Rec(i) = ExhaustiveRecord(gaussian_positions[i], fbs)
        ELSE Rec(i) \in IndexRecords(gaussian_positions[i])

\* the narrow-phase result of a point against face f (0-based)
OnFace(point, f) ==
  CandidateProjection(point, FaceData.face_vertices[f + 1])

\* the faces that attain the least narrow-phase distance of a point
NearestFaces(point) ==
  {f \in 0..(n_faces - 1) :
     \A g \in 0..(n_faces - 1) : ~RLt(OnFace(point, g).dist, OnFace(point, f).dist)}

\* an index run with k = F over a mesh with faces has returned
IndexRunWithAllFaces ==
  pc = "returned" /\ backend = "cpu" /\ n_faces >= 1 /\ k_nearest = n_faces

\* the nearest-centroid query of the point has one possible answer (no two
\* centroids are equally far from it)
QueryDetermined(point) ==
  Cardinality(TreeQuery(point, FaceData.centroids, n_faces, k_nearest)) = 1

\* C3 (as claimed, for the points whose candidate order is determined): with
\* k = F the index strategy selects, for every point, the face and the
\* barycentric coordinates the exhaustive strategy selects.
C3_StrategiesAgree ==
  IndexRunWithAllFaces =>
    \A i \in 1..n_gaussians : \A fbs \in 1..MaxChunk :
      QueryDetermined(gaussian_positions[i]) =>
        SameFace(i, ExhaustiveRecord(gaussian_positions[i], fbs))

\* C3 (amended): with k = F both strategies record the same distance for every
\* point, and the same face and barycentric coordinates for every point whose
\* least narrow-phase distance is attained by exactly one face.
C3_StrategiesAgreeOffTies ==
  IndexRunWithAllFaces =>
    \A i \in 1..n_gaussians : \A fbs \in 1..MaxChunk :
      IF Cardinality(NearestFaces(gaussian_positions[i])) = 1
        THEN SameProjection(i, ExhaustiveRecord(gaussian_positions[i], fbs))
        ELSE SameDistance(i, ExhaustiveRecord(gaussian_positions[i], fbs))

\* C3 witness: an index run with k = F >= 3 has returned a point whose single
\* nearest face is not face 0, so several chunks and candidates were compared
C3_Witness ==
  /\ IndexRunWithAllFaces /\ n_faces >= 3
  /\ \E i \in 1..n_gaussians :
       /\ Cardinality(NearestFaces(gaussian_positions[i])) = 1
       /\ face_indices[i] >= 1

\* the point's projection onto the plane of face f falls inside that face, and
\* the face has an area: the unclamped u, v, w all lie in [0, 1]
ProjectsInside(point, f) ==
  /\ ~FaceData.normals[f + 1].floored
  /\ \A c \in 1..3 : /\ ~RLt(OnFace(point, f).unclamped[c], RZero)
                     /\ ~RLt(ROne, OnFace(point, f).unclamped[c])

\* C4 (as claimed, for the index strategy): reconstruct_positions on the
\* unchanged mesh returns every query point.
C4_ReconstructsEveryPoint ==
  (pc = "verified" /\ backend = "cpu") =>
    \A i \in 1..n_gaussians : reconstructed[i] = PointCoords(gaussian_positions[i])

\* C4 (amended): reconstruct_positions on the result of compute_mapping_cpu and
\* the unchanged mesh returns every query point whose projection onto the
\* plane of its selected face falls inside that face, when the face has an area.
C4_ReconstructsInsideProjections ==
  (pc = "verified" /\ backend = "cpu") =>
    \A i \in 1..n_gaussians :
      ProjectsInside(gaussian_positions[i], face_indices[i]) =>
        reconstructed[i] = PointCoords(gaussian_positions[i])

\* C4 witness: a point off the surface (non-zero normal offset) that projects
\* inside its selected face has been reconstructed
C4_Witness ==
  /\ pc = "verified" /\ backend = "cpu"
  /\ \E i \in 1..n_gaussians :
       /\ ProjectsInside(gaussian_positions[i], face_indices[i])
       /\ normal_offsets[i].sgn # 0

\* the point lies on the interior of face f: in its plane, with u, v, w all
\* strictly between 0 and 1
OnInterior(point, f) ==
  /\ ~FaceData.normals[f + 1].floored
  /\ OnFace(point, f).dist = RZero
  /\ \A c \in 1..3 : /\ RLt(RZero, OnFace(point, f).unclamped[c])
                     /\ RLt(OnFace(point, f).unclamped[c], ROne)

\* C5 (as claimed): a point on the interior of a face gets distance 0 and is
\* returned by reconstruct_positions on the unchanged mesh.
C5_RoundTripOnFace ==
  pc = "verified" =>
    \A i \in 1..n_gaussians :
      (\E f \in 0..(n_faces - 1) : OnInterior(gaussian_positions[i], f)) =>
        /\ min_distances[i] = RZero
        /\ reconstructed[i] = PointCoords(gaussian_positions[i])

\* u, v, w each lie in [0, 1] and sum to 1
PartitionOfUnity(b) ==
  /\ \A c \in 1..3 : ~RLt(b[c], RZero) /\ ~RLt(ROne, b[c])
  /\ Total(b) = ROne

\* C6 (as claimed): every record of every returned mapping result, and every
\* row the narrow phase computes for a point of the run against a face of its
\* mesh (degenerate faces included), has u, v, w in [0, 1] with u + v + w = 1.
C6_PartitionOfUnity ==
  pc = "returned" =>
    \A i \in 1..n_gaussians :
      /\ PartitionOfUnity(bary_coords[i])
      /\ \A f \in 0..(n_faces - 1) : PartitionOfUnity(OnFace(gaussian_positions[i], f).bary)

\* C7: over a mesh with F >= 1 faces every face index held by the output
\* arrays and by the running arrays of a batch lies in 0 .. F-1, in every state
\* of either strategy, for every k (k > F included) and every chunk size.
C7_FaceIndexInRange ==
  n_faces >= 1 =>
    /\ \A i \in 1..Len(face_indices) : 0 <= face_indices[i] /\ face_indices[i] < n_faces
    /\ \A b \in 1..Len(batch_face_indices) :
         0 <= batch_face_indices[b] /\ batch_face_indices[b] < n_faces

\* C7 witness: an index run with k > F has returned a record that names a face
\* other than the initial face 0
C7_Witness ==
  /\ pc = "returned" /\ backend = "cpu" /\ n_faces >= 2 /\ k_nearest > n_faces
  /\ \E i \in 1..n_gaussians : face_indices[i] = n_faces - 1

\* the batch whose index range contains slot i (1-based)
BatchOf(i) == (i - 1) \div batch_size

\* the face, coordinates and distance of record i are those computed for point i
DescribesPoint(i) ==
  IF backend = "cuda"
    THEN SameProjection(i, ExhaustiveRecord(gaussian_positions[i], face_batch_size))
    ELSE \E c \in TreeQuery(gaussian_positions[i], FaceData.centroids, n_faces, k_nearest) :
           SameProjection(i, CpuBest(gaussian_positions[i], c, FaceData.face_vertices, n_faces))

\* C8: a run over a mesh with faces never raises, for any N >= 0; no slot is
\* ever assigned twice, and only by the batch whose range contains it; the
\* returned result holds exactly N records, each assigned exactly once, record
\* i describing point i.
C8_ExactlyNRecords ==
  /\ n_faces >= 1 => raised = "none"
  /\ \A i \in 1..Len(writes) : writes[i] = <<>> \/ writes[i] = <<BatchOf(i)>>
  /\ pc \in {"returned", "verified"} =>
       /\ Len(face_indices) = n_gaussians /\ Len(bary_coords) = n_gaussians
       /\ Len(normal_offsets) = n_gaussians /\ Len(min_distances) = n_gaussians
       /\ \A i \in 1..n_gaussians : writes[i] = <<BatchOf(i)>>
       /\ n_faces >= 1 => \A i \in 1..n_gaussians : DescribesPoint(i)

\* C8 witness: a run of two batches, the points of the second assigned by it
C8_Witness ==
  /\ pc = "returned" /\ n_faces >= 1 /\ n_gaussians = 2 /\ batch_size = 1
  /\ writes = << <<0>>, <<1>> >>
  /\ face_indices[1] # face_indices[2]

\* the unit square of the scenario and its query point (0.25, 0.25, 0.5), held
\* by slot i
Scenario(i) ==
  /\ vertices = << <<0, 0, 0>>, <<4, 0, 0>>, <<4, 4, 0>>, <<0, 4, 0>> >>
  /\ faces = << <<0, 1, 2>>, <<0, 2, 3>> >>
  /\ i \in 1..n_gaussians /\ gaussian_positions[i] = <<1, 1, 2>>

\* C9 (as claimed): the point maps to face 0 with barycentric coordinates
\* (0.5, 0.25, 0.25), normal offset 0.5 and distance 0.5.
C9_ScenarioAsClaimed ==
  pc = "returned" =>
    \A i \in 1..n_gaussians :
      Scenario(i) =>
        /\ face_indices[i] = 0
        /\ bary_coords[i] = <<R(1, 2), R(1, 4), R(1, 4)>>
        /\ normal_offsets[i] = Surd(1, 4)
        /\ min_distances[i] = R(1, 4)

\* C9 (amended): the point maps to face 0 with barycentric coordinates
\* (0.75, 0, 0.25), or, in the index strategy, to face 1 with (0.75, 0.25, 0)
\* (the point lies above the shared diagonal and the two centroids are equally
\* far from it); normal offset 0.5 and distance 0.5 either way.
C9_Scenario ==
  pc = "returned" =>
    \A i \in 1..n_gaussians :
      Scenario(i) =>
        /\ \/ face_indices[i] = 0 /\ bary_coords[i] = <<R(3, 4), RZero, R(1, 4)>>
           \/ /\ backend = "cpu"
              /\ face_indices[i] = 1 /\ bary_coords[i] = <<R(3, 4), R(1, 4), RZero>>
        /\ normal_offsets[i] = Surd(1, 4)
        /\ min_distances[i] = R(1, 4)

\* C9 witness: the scenario has been mapped
C9_Witness == pc = "returned" /\ \E i \in 1..n_gaussians : Scenario(i)

\* C10 (as claimed): a run against a mesh without faces does nothing but raise
\* ValidationError: no index is built, no array allocated, no batch processed.
C10_ZeroFacesRejected ==
  n_faces = 0 =>
    \/ pc = "start"
    \/ /\ pc = "raised" /\ raised = "ValidationError"
       /\ tree = "none" /\ face_indices = <<>> /\ writes = <<>> /\ batch_idx = 0

\* a rational that is not an infinity
Finite(q) == q.d # 0

\* the three vertices of a face lie on one line (coincident vertices included)
Collinear(fv) == VCross(VSub(fv[2], fv[1]), VSub(fv[3], fv[1])) = <<0, 0, 0>>

\* every number of a narrow-phase row is finite
FiniteRow(r) ==
  /\ \A c \in 1..3 : Finite(r.unclamped[c]) /\ Finite(r.bary[c]) /\ Finite(r.closest[c])
  /\ Finite(r.dist)

\* the row the floors produce for a face without area: every quotient over the
\* floored determinant is 0, so u = 1 and the closest point is v0
RowAtV0(r, point, fv) ==
  /\ r.unclamped = <<ROne, RZero, RZero>>
  /\ r.bary = <<ROne, RZero, RZero>>
  /\ r.dist = RDiv(RDist2(point, <<RInt(fv[1][1]), RInt(fv[1][2]), RInt(fv[1][3])>>), RInt(16))

\* the row of a face without area: finite, at v0, and with a non-zero sum to
\* divide the clamped coordinates by
DegenerateRow(r, point, fv) ==
  FiniteRow(r) /\ RowAtV0(r, point, fv) /\ FlooredTotal(Total(r.bary)) # RZero

\* C11: for every face whose vertices lie on one line and every query point,
\* the normal of compute_face_data is the zero vector (the floored norm divides
\* a zero cross product), the sum the barycentric coordinates are divided by
\* is not zero, and the row of point_to_triangle_distance_and_projection has
\* finite u, v, w, finite clamped coordinates and a finite distance; every
\* record returned over a mesh with faces is finite as well.
C11_DegenerateFinite ==
  /\ \A f \in 1..n_faces :
       Collinear(FaceData.face_vertices[f]) =>
         /\ FaceData.normals[f].floored /\ FaceData.normals[f].dir = <<0, 0, 0>>
         /\ \A i \in 1..n_gaussians :
              DegenerateRow(OnFace(gaussian_positions[i], f - 1), gaussian_positions[i],
                            FaceData.face_vertices[f])
  /\ (pc = "returned" /\ n_faces >= 1) =>
       \A i \in 1..n_gaussians :
         /\ \A c \in 1..3 : Finite(bary_coords[i][c])
         /\ Finite(min_distances[i]) /\ Finite(normal_offsets[i].sq)

\* C11 witness: a run has returned over a mesh of two faces without area, one
\* with coincident vertices and one with three distinct vertices on a line,
\* for a point away from the mesh
C11_Witness ==
  /\ pc = "returned" /\ n_faces = 2
  /\ \A f \in 1..n_faces : Collinear(FaceData.face_vertices[f])
  /\ \E f \in 1..n_faces : FaceData.face_vertices[f][1] = FaceData.face_vertices[f][2]
  /\ \E f \in 1..n_faces : Cardinality({FaceData.face_vertices[f][c] : c \in 1..3}) = 3
  /\ \E i \in 1..n_gaussians : RLt(RZero, min_distances[i])

\* byte off (0-based) of the file is the first of the four bytes, least
\* significant first, of the field `of` packed with fmt
FieldAt(off, fmt, of) ==
  /\ off + 4 <= Len(saved.bytes)
  /\ \A k \in 0..3 : /\ saved.bytes[off + k + 1].byte = k
                      /\ saved.bytes[off + k + 1].word.fmt = fmt
                      /\ saved.bytes[off + k + 1].word.of = of

\* the integer the four bytes from byte off on spell, least significant first
IntAt(off) ==
  ByteValue(saved.bytes[off + 1]) + 256 * ByteValue(saved.bytes[off + 2])
    + 65536 * ByteValue(saved.bytes[off + 3]) + 16777216 * ByteValue(saved.bytes[off + 4])

\* the number of records of the saved result
SavedCount == Len(face_indices)

\* C12 (as claimed): the 'bin' file is 4 + 16*N bytes long and record i starts
\* at byte 4 + 16*i.
C12_SixteenByteRecords ==
  saved.format = "bin" =>
    /\ Len(saved.bytes) = 4 + 16 * SavedCount
    /\ \A i \in 0..(SavedCount - 1) : FieldAt(4 + 16 * i, "<i", <<"face_indices", i, 0>>)

\* C12 (amended): the 'bin' file is the count N as a 4-byte little-endian
\* integer followed by N records of 20 bytes: the face index as a 4-byte
\* little-endian integer, the three barycentric floats and the normal offset,
\* the values of row i; the file is 4 + 20*N bytes long and record i starts at
\* byte 4 + 20*i.
C12_TwentyByteRecords ==
  saved.format = "bin" =>
    /\ Len(saved.bytes) = 4 + 20 * SavedCount
    /\ FieldAt(0, "<i", <<"count", 0, 0>>) /\ IntAt(0) = SavedCount
    /\ \A i \in 0..(SavedCount - 1) :
         /\ FieldAt(4 + 20 * i, "<i", <<"face_indices", i, 0>>)
         /\ IntAt(4 + 20 * i) = face_indices[i + 1]
         /\ \A c \in 0..2 :
              /\ FieldAt(4 + 20 * i + 4 + 4 * c, "<f", <<"bary_coords", i, c>>)
              /\ saved.bytes[4 + 20 * i + 4 + 4 * c + 1].word.value = bary_coords[i + 1][c + 1]
         /\ FieldAt(4 + 20 * i + 16, "<f", <<"normal_offsets", i, 0>>)
         /\ saved.bytes[4 + 20 * i + 16 + 1].word.value = normal_offsets[i + 1]

\* C12 witness: a 'bin' file of two records has been written, the second for
\* a face other than face 0
C12_Witness ==
  /\ pc = "saved" /\ saved.format = "bin"
  /\ SavedCount = 2 /\ face_indices[2] > 0

\* the narrow-phase distance of a point to face f (0-based)
FaceDist(point, f) == OnFace(point, f).dist

\* the positions of a candidate array whose face is examined (in range)
Examined(c) == {j \in 1..Len(c) : c[j] < n_faces}

\* position j of the candidate array c, whose face is at distance dist, is the
\* first in query order whose face attains the least distance among the
\* examined candidates
FirstBest(point, c, j, dist) ==
  /\ j \in Examined(c)
  /\ \A e \in Examined(c) :
       IF e < j THEN RLt(dist, FaceDist(point, c[e])) ELSE ~RLt(FaceDist(point, c[e]), dist)

\* face f, at distance dist, is the lowest-numbered face that attains the least
\* distance over all faces
LowestBest(point, f, dist) ==
  /\ f \in 0..(n_faces - 1)
  /\ \A g \in 0..(n_faces - 1) :
       IF g < f THEN RLt(dist, FaceDist(point, g)) ELSE ~RLt(FaceDist(point, g), dist)

\* record i holds face f with the row the narrow phase computes for it
HoldsFace(i, f) ==
  /\ face_indices[i] = f
  /\ min_distances[i] = FaceDist(gaussian_positions[i], f)
  /\ bary_coords[i] = OnFace(gaussian_positions[i], f).bary

\* C13: in a result returned over a mesh with faces, the face of every record
\* attains the least narrow-phase distance over the faces examined for its
\* point, the recorded distance is that least distance, and of several faces
\* that attain it the first in iteration order is recorded: the first in
\* query order among the in-range candidates of the index strategy, the
\* lowest face index in the exhaustive strategy, for every chunk size.
C13_FirstMinimumSelected ==
  (pc = "returned" /\ n_faces >= 1) =>
    \A i \in 1..n_gaussians :
      IF backend = "cuda"
        THEN /\ LowestBest(gaussian_positions[i], face_indices[i], min_distances[i])
             /\ HoldsFace(i, face_indices[i])
        ELSE \E c \in TreeQuery(gaussian_positions[i], FaceData.centroids, n_faces, k_nearest) :
               \E j \in 1..k_nearest :
                 /\ HoldsFace(i, c[j])
                 /\ FirstBest(gaussian_positions[i], c, j, min_distances[i])

\* C13 witness: several faces attain the least distance of a point; the
\* exhaustive strategy, scanning them in different chunks, has recorded one,
\* or the index strategy has recorded one that is not the lowest-numbered
C13_Witness ==
  /\ pc = "returned" /\ n_faces >= 2
  /\ \E i \in 1..n_gaussians :
       /\ Cardinality(NearestFaces(gaussian_positions[i])) >= 2
       /\ \/ backend = "cuda" /\ face_batch_size = 1
          \/ /\ backend = "cpu"
             /\ \E g \in NearestFaces(gaussian_positions[i]) : g < face_indices[i]

\* the faces whose chunk has been processed for the current batch
Scanned == 0..(Min(face_start, n_faces) - 1)

\* the query point of row b (1-based) of the current batch
BatchPoint(b) == gaussian_positions[BatchStart(batch_idx, batch_size) + b]

\* the running values of row b are those of one scanned face that attains the
\* least distance over the scanned faces (the initial values while none is)
RunningConsistent(b) ==
  IF Scanned = {}
    THEN batch_min_dist[b] = RInf /\ batch_face_indices[b] = 0
    ELSE /\ batch_face_indices[b] \in Scanned
         /\ batch_min_dist[b] = FaceDist(BatchPoint(b), batch_face_indices[b])
         /\ batch_bary[b] = OnFace(BatchPoint(b), batch_face_indices[b]).bary
         /\ \A g \in Scanned : ~RLt(FaceDist(BatchPoint(b), g), batch_min_dist[b])

RunningMinimum ==
  pc = "cuda_faces" => \A b \in 1..Len(batch_min_dist) : RunningConsistent(b)

\* a face chunk does not raise the running minimum distance of any row
NonIncreasing ==
  (pc = "cuda_faces" /\ pc' = "cuda_faces") =>
    \A b \in 1..Len(batch_min_dist) : ~RLt(batch_min_dist[b], batch_min_dist'[b])

\* C14: in the exhaustive strategy, after each face chunk and for every point
\* of the batch, the running minimum distance equals the least narrow-phase
\* distance over the faces scanned so far, the running face index and
\* barycentric coordinates are those of one scanned face that attains it, and
\* no chunk raises the running minimum distance.
C14_RunningMinimum == [](RunningMinimum) /\ [][NonIncreasing]_vars

\* C14 witness: in the middle of a scan, after at least two chunks, a row
\* holds a face of a later chunk than the first
C14_Witness ==
  /\ pc = "cuda_faces" /\ face_start >= 2 * face_batch_size /\ face_start < n_faces
  /\ \E b \in 1..Len(batch_min_dist) : batch_face_indices[b] >= face_batch_size

=============================================================================
